---- MODULE Spec2Model ----
(***************************************************************************)
(* Model of dataloader.js: the client profiler (getOperatingSystem,        *)
(* getBrowser, collectClientData), the geolocation resolver                *)
(* (fetchAlternateGeoData), the transmitter (sendDataToLog) and the        *)
(* orchestrator (runAlternateDataTransfer).                                *)
(*                                                                         *)
(* A JavaScript string is a sequence of atoms: an agent string, a locale   *)
(* tag or a rendered number is a sequence of characters, a string literal  *)
(* of the source is one atom.  Concatenation and template literals are \o, *)
(* String.prototype.includes is a search for a contiguous subsequence.     *)
(* A JavaScript value is a record [t, n, s]: its type, its number (in      *)
(* hundredths) and its string.                                             *)
(***************************************************************************)
EXTENDS Integers, Sequences, FiniteSets, TLC

VARIABLES env, clock, pc, clientName, clientData, geoData, fullPayload,
          result, thrown, calls, sendOutcome, profileOut, osOut

vars == <<env, clock, pc, clientName, clientData, geoData, fullPayload,
          result, thrown, calls, sendOutcome, profileOut, osOut>>

\* ------------------------------------------------------------------ bounds

\* Number of invocations of runAlternateDataTransfer in progress at once.
NumInvocations == 2

\* Number of fragments an enumerated agent string is assembled from.
MaxUAFragments == 3

Invocations == 1..NumInvocations

\* --------------------------------------------------------- values, strings

Undefined == [t |-> "undefined", n |-> 0, s |-> <<>>]
Null == [t |-> "null", n |-> 0, s |-> <<>>]
Str(text) == [t |-> "string", n |-> 0, s |-> text]
Num(hundredths) == [t |-> "number", n |-> hundredths, s |-> <<>>]
BigInt(k) == [t |-> "bigint", n |-> k, s |-> <<>>]

\* ToBoolean of a value: undefined, null, "", 0 and 0n are falsy.
Truthy(v) ==
    CASE v.t = "undefined" -> FALSE
      [] v.t = "null" -> FALSE
      [] v.t = "string" -> v.s # <<>>
      [] OTHER -> v.n # 0

\* a || b
OrElse(a, b) == IF Truthy(a) THEN a ELSE b

Digit(d) == <<"0", "1", "2", "3", "4", "5", "6", "7", "8", "9">>[d + 1]

RECURSIVE DigitsOf(_)
\* The decimal rendering of a natural number.
DigitsOf(k) == IF k < 10 THEN <<Digit(k)>> ELSE DigitsOf(k \div 10) \o <<Digit(k % 10)>>

\* Number::toString of a non-negative number given in hundredths: 100 is "1",
\* 150 is "1.5", 3775 is "37.75".
NumToText(h) ==
    LET ip == h \div 100
        fr == h % 100
    IN  IF fr = 0 THEN DigitsOf(ip)
        ELSE IF fr % 10 = 0 THEN DigitsOf(ip) \o <<".", Digit(fr \div 10)>>
        ELSE DigitsOf(ip) \o <<".", Digit(fr \div 10), Digit(fr % 10)>>

\* Number.prototype.toFixed(1) of a non-negative number given in hundredths.
\* The numbers enumerated are multiples of 0.25, which binary floating point
\* holds exactly, so that a tie rounds up as toFixed specifies.
ToFixed1(h) ==
    LET tenths == (h + 5) \div 10
    IN  DigitsOf(tenths \div 10) \o <<".", Digit(tenths % 10)>>

\* ToString of a value inside a template literal.
ToText(v) ==
    CASE v.t = "undefined" -> <<"u", "n", "d", "e", "f", "i", "n", "e", "d">>
      [] v.t = "null" -> <<"n", "u", "l", "l">>
      [] v.t = "string" -> v.s
      [] OTHER -> NumToText(v.n)

\* String.prototype.includes
Includes(s, t) ==
    \E i \in 1..(Len(s) - Len(t) + 1) : SubSeq(s, i, i + Len(t) - 1) = t

UpperPairs ==
    { <<"a", "A">>, <<"b", "B">>, <<"d", "D">>, <<"e", "E">>, <<"g", "G">>,
      <<"h", "H">>, <<"i", "I">>, <<"l", "L">>, <<"m", "M">>, <<"n", "N">>,
      <<"o", "O">>, <<"p", "P">>, <<"r", "R">>, <<"s", "S">>, <<"u", "U">>,
      <<"w", "W">>, <<"x", "X">> }

UpperChar(c) == IF \E p \in UpperPairs : p[1] = c
                THEN (CHOOSE p \in UpperPairs : p[1] = c)[2] ELSE c

LowerChar(c) == IF \E p \in UpperPairs : p[2] = c
                THEN (CHOOSE p \in UpperPairs : p[2] = c)[1] ELSE c

\* String.prototype.toUpperCase
ToUpperCase(s) == [k \in 1..Len(s) |-> UpperChar(s[k])]

ToLowerCase(s) == [k \in 1..Len(s) |-> LowerChar(s[k])]

IsDigit(c) == c \in {"0", "1", "2", "3", "4", "5", "6", "7", "8", "9"}

\* --------------------------------------------------------------- constants

ALTERNATE_IP_API_URL == <<"http://ip-api.com/json">>

LOGGING_ENDPOINT == <<"https://data-store-id-3476854t7ewgbm09us.vercel.app/">>

\* ------------------------------------------------------ getOperatingSystem

Tok_Win == <<"W", "i", "n">>
Tok_Android == <<"A", "n", "d", "r", "o", "i", "d">>
Tok_Mac == <<"M", "a", "c">>
Tok_Linux == <<"L", "i", "n", "u", "x">>
Tok_CrOS == <<"C", "r", "O", "S">>
Tok_iPhone == <<"i", "P", "h", "o", "n", "e">>
Tok_iPad == <<"i", "P", "a", "d">>

\* A mis-ordered classifier: the Linux test placed before the Android test.
getOperatingSystem_LinuxFirst(userAgent) ==
    IF Includes(userAgent, Tok_Win) THEN <<"Windows">>
    ELSE IF Includes(userAgent, Tok_Linux) THEN <<"Linux">>
    ELSE IF Includes(userAgent, Tok_Android) THEN <<"Android">>
    ELSE IF Includes(userAgent, Tok_Mac) THEN <<"macOS (Apple)">>
    ELSE IF Includes(userAgent, Tok_CrOS) THEN <<"Chrome OS">>
    ELSE IF Includes(userAgent, Tok_iPhone) \/ Includes(userAgent, Tok_iPad)
         THEN <<"iOS (Apple)">>
    ELSE <<"Unknown/Other">>

getOperatingSystem(userAgent) ==
    IF Includes(userAgent, Tok_Win) THEN <<"Windows">>
    ELSE IF Includes(userAgent, Tok_Android) THEN <<"Android">>
    ELSE IF Includes(userAgent, Tok_Mac) THEN <<"macOS (Apple)">>
    ELSE IF Includes(userAgent, Tok_Linux) THEN <<"Linux">>
    ELSE IF Includes(userAgent, Tok_CrOS) THEN <<"Chrome OS">>
    ELSE IF Includes(userAgent, Tok_iPhone) \/ Includes(userAgent, Tok_iPad)
         THEN <<"iOS (Apple)">>
    ELSE <<"Unknown/Other">>

\* -------------------------------------------------------------- getBrowser

Tok_Chrome == <<"C", "h", "r", "o", "m", "e">>
Tok_Edg == <<"E", "d", "g">>
Tok_Firefox == <<"F", "i", "r", "e", "f", "o", "x">>
Tok_Safari == <<"S", "a", "f", "a", "r", "i">>
Tok_Version == <<"V", "e", "r", "s", "i", "o", "n">>
Tok_MSIE == <<"M", "S", "I", "E">>
Tok_Trident == <<"T", "r", "i", "d", "e", "n", "t">>

\* The positions where `label` followed by "/" and a digit starts in s.
VersionStarts(s, label) ==
    LET pre == label \o <<"/">>
    IN  { i \in 1..(Len(s) - Len(pre)) :
            /\ SubSeq(s, i, i + Len(pre) - 1) = pre
            /\ IsDigit(s[i + Len(pre)]) }

\* userAgent.match(/<label>\/(\d+)/)?.[1] || "": the longest run of digits
\* after the leftmost "<label>/" that a digit follows, "" without a match.
MatchVersion(s, label) ==
    LET starts == VersionStarts(s, label)
    IN  IF starts = {} THEN <<>>
        ELSE LET i == CHOOSE a \in starts : \A b \in starts : a <= b
                 from == i + Len(label) + 1
                 to == CHOOSE e \in from..Len(s) :
                         /\ \A k \in from..e : IsDigit(s[k])
                         /\ (e = Len(s) \/ ~IsDigit(s[e + 1]))
             IN  SubSeq(s, from, to)

getBrowser(userAgent) ==
    LET chosen ==
          IF Includes(userAgent, Tok_Chrome) /\ ~Includes(userAgent, Tok_Edg)
          THEN [browser |-> <<"Chrome">>, version |-> MatchVersion(userAgent, Tok_Chrome)]
          ELSE IF Includes(userAgent, Tok_Firefox)
          THEN [browser |-> <<"Firefox">>, version |-> MatchVersion(userAgent, Tok_Firefox)]
          ELSE IF Includes(userAgent, Tok_Safari) /\ ~Includes(userAgent, Tok_Chrome)
          THEN [browser |-> <<"Safari">>, version |-> MatchVersion(userAgent, Tok_Version)]
          ELSE IF Includes(userAgent, Tok_Edg)
          THEN [browser |-> <<"Edge">>, version |-> MatchVersion(userAgent, Tok_Edg)]
          ELSE IF Includes(userAgent, Tok_MSIE) \/ Includes(userAgent, Tok_Trident)
          THEN [browser |-> <<"Internet Explorer">>, version |-> <<>>]
          ELSE [browser |-> <<"Unknown">>, version |-> <<>>]
    IN  IF chosen.version # <<>>
        THEN chosen.browser \o <<" (v">> \o chosen.version \o <<")">>
        ELSE chosen.browser

\* ------------------------------------------------------- collectClientData

ProfileKeys ==
    { "name", "logTimestamp", "os", "browser", "resolution", "deviceType",
      "connectionSpeed", "browserLanguage", "localTimeFormatted", "userAgent" }

\* A completion of a call: a returned value or a thrown error (its message);
\* NotSettled is a call that has not completed.
NotSettled == [kind |-> "pending", value |-> <<>>, error |-> <<>>]
Return(v) == [kind |-> "return", value |-> v, error |-> <<>>]
Throw(message) == [kind |-> "throw", value |-> <<>>, error |-> message]

NoConnection == [present |-> FALSE, effectiveType |-> Undefined, downlink |-> Undefined]
Connection(et, dl) == [present |-> TRUE, effectiveType |-> et, downlink |-> dl]

\* navigator.connection || navigator.mozConnection || navigator.webkitConnection
\* (an object is truthy, an absent property is undefined).
FirstConnection(e) ==
    IF e.connection.present THEN e.connection
    ELSE IF e.mozConnection.present THEN e.mozConnection
    ELSE e.webkitConnection

\* connection && connection.effectiveType ? connection.effectiveType.toUpperCase() : 'N/A'
\* toUpperCase exists on strings only: a truthy value of another type throws.
EffectiveTypeOf(connection) ==
    IF connection.present /\ Truthy(connection.effectiveType)
    THEN IF connection.effectiveType.t = "string"
         THEN Return(ToUpperCase(connection.effectiveType.s))
         ELSE Throw(<<"connection.effectiveType.toUpperCase is not a function">>)
    ELSE Return(<<"N/A">>)

\* connection && connection.downlink ? `${connection.downlink.toFixed(1)} Mbps` : 'N/A'
\* toFixed exists on numbers only: a truthy value of another type throws.
SpeedOf(connection) ==
    IF connection.present /\ Truthy(connection.downlink)
    THEN IF connection.downlink.t = "number"
         THEN Return(ToFixed1(connection.downlink.n) \o <<" Mbps">>)
         ELSE Throw(<<"connection.downlink.toFixed is not a function">>)
    ELSE Return(<<"N/A">>)

\* /Mobi|Android|iPhone|iPad|Windows Phone/i.test(userAgent)
IsMobile(userAgent) ==
    LET lower == ToLowerCase(userAgent)
    IN  \/ Includes(lower, <<"m", "o", "b", "i">>)
        \/ Includes(lower, ToLowerCase(Tok_Android))
        \/ Includes(lower, ToLowerCase(Tok_iPhone))
        \/ Includes(lower, ToLowerCase(Tok_iPad))
        \/ Includes(lower, <<"w", "i", "n", "d", "o", "w", "s", " ", "p", "h", "o", "n", "e">>)

Letters == { p[1] : p \in UpperPairs } \cup { p[2] : p \in UpperPairs }

\* The locale check of Date.prototype.toLocaleTimeString (ECMA-402
\* IsStructurallyValidLanguageTag, to the extent the enumerated tags need):
\* subtags of letters and digits separated by single hyphens, the first one
\* two or three letters.
IsStructurallyValidLanguageTag(tag) ==
    LET firstLen == IF \E k \in 1..Len(tag) : tag[k] = "-"
                    THEN (CHOOSE k \in 1..Len(tag) :
                            tag[k] = "-" /\ \A j \in 1..(k - 1) : tag[j] # "-") - 1
                    ELSE Len(tag)
    IN  /\ tag # <<>>
        /\ \A k \in 1..Len(tag) : tag[k] \in Letters \/ IsDigit(tag[k]) \/ tag[k] = "-"
        /\ tag[1] # "-" /\ tag[Len(tag)] # "-"
        /\ \A k \in 1..(Len(tag) - 1) : ~(tag[k] = "-" /\ tag[k + 1] = "-")
        /\ firstLen \in {2, 3}
        /\ \A k \in 1..firstLen : tag[k] \in Letters

\* now.toLocaleTimeString(navigator.language, {...}): undefined selects the
\* default locale, a well-formed tag is used, a malformed tag is a RangeError
\* and a value that is neither a string nor undefined is a TypeError.  The
\* rendering is kept as the pair (instant, locale).
LocalTimeFormatted(now, language) ==
    CASE language.t = "undefined" ->
           Return(<<"time ">> \o DigitsOf(now) \o <<" in default locale">>)
      [] language.t = "string" ->
           IF IsStructurallyValidLanguageTag(language.s)
           THEN Return(<<"time ">> \o DigitsOf(now) \o <<" in ">> \o language.s)
           ELSE Throw(<<"Incorrect locale information provided">>)
      [] OTHER -> Throw(<<"Cannot convert locale to object">>)

\* The statements run in source order, so the first one that throws decides
\* the error: effectiveType (line 56), speed (line 57), localTimeFormatted
\* (line 70).  `now` is the instant new Date() reads.
collectClientData(name, e, now) ==
    LET userAgent == e.userAgent
        connection == FirstConnection(e)
        effectiveType == EffectiveTypeOf(connection)
        speed == SpeedOf(connection)
        localTime == LocalTimeFormatted(now, e.language)
    IN  IF effectiveType.kind = "throw" THEN effectiveType
        ELSE IF speed.kind = "throw" THEN speed
        ELSE IF localTime.kind = "throw" THEN localTime
        ELSE Return(
          [k \in ProfileKeys |->
            CASE k = "name" -> IF name.t = "undefined" THEN Str(<<"Anonymous">>) ELSE name
              [] k = "logTimestamp" -> Str(<<"ISO ">> \o DigitsOf(now))
              [] k = "os" -> Str(getOperatingSystem(userAgent))
              [] k = "browser" -> Str(getBrowser(userAgent))
              [] k = "resolution" -> Str(DigitsOf(e.screenWidth) \o <<"x">> \o DigitsOf(e.screenHeight))
              [] k = "deviceType" -> Str(IF IsMobile(userAgent) THEN <<"Mobile/Tablet">> ELSE <<"Desktop">>)
              [] k = "connectionSpeed" ->
                   Str(effectiveType.value \o <<" (">> \o speed.value \o <<")">>)
              [] k = "browserLanguage" -> OrElse(e.language, Str(<<"N/A">>))
              [] k = "localTimeFormatted" -> Str(localTime.value)
              [] OTHER -> Str(userAgent) ])

\* --------------------------------------------------- fetchAlternateGeoData

BodyKeys ==
    { "status", "message", "query", "isp", "as", "countryCode", "regionName",
      "city", "zip", "lat", "lon", "timezone" }

GeoKeys ==
    { "ip", "org", "asn", "countryCode", "region", "city", "zip", "coords",
      "timezone", "apiSource" }

\* What a fetch() settles with: a rejection (its error message) or a response.
Rejected(message) == [rejected |-> TRUE, error |-> message, status |-> 0]
Response(status) == [rejected |-> FALSE, error |-> <<>>, status |-> status]
NoOutcome == [rejected |-> FALSE, error |-> <<>>, status |-> 0]

\* What response.json() settles with: a SyntaxError, the value null, or an object.
JsonSyntaxError(message) == [kind |-> "syntaxError", fields |-> <<>>, error |-> message]
JsonNull == [kind |-> "null", fields |-> <<>>, error |-> <<>>]
JsonObject(fields) == [kind |-> "object", fields |-> fields, error |-> <<>>]
NoBody == [kind |-> "none", fields |-> <<>>, error |-> <<>>]

\* Response.ok
ResponseOk(status) == status >= 200 /\ status <= 299

\* Lines 84-87: the fetch settles; a rejection or a non-OK status throws.
GeoOnResponse(outcome) ==
    IF outcome.rejected THEN Throw(outcome.error)
    ELSE IF ~ResponseOk(outcome.status)
    THEN Throw(<<"HTTP error from ip-api.com! Status: ">> \o DigitsOf(outcome.status))
    ELSE Return(<<>>)

\* Lines 93-104: the fixed mapping of the body to the record returned.
GeoRecordOf(g) ==
    [k \in GeoKeys |->
      CASE k = "ip" -> g["query"]
        [] k = "org" -> g["isp"]
        [] k = "asn" -> g["as"]
        [] k = "countryCode" -> g["countryCode"]
        [] k = "region" -> g["regionName"]
        [] k = "city" -> g["city"]
        [] k = "zip" -> g["zip"]
        [] k = "coords" -> Str(ToText(g["lat"]) \o <<",">> \o ToText(g["lon"]))
        [] k = "timezone" -> g["timezone"]
        [] OTHER -> Str(<<"ip-api.com">>) ]

\* A resolver that takes any truthy status for success.
GeoOnBody_AnyStatus(body) ==
    CASE body.kind = "syntaxError" -> Throw(body.error)
      [] body.kind = "null" -> Throw(<<"Cannot read properties of null (reading 'status')">>)
      [] OTHER ->
           IF Truthy(body.fields["status"])
           THEN Return(GeoRecordOf(body.fields))
           ELSE Throw(ToText(OrElse(body.fields["message"],
                                    Str(<<"Alternate API returned failure status.">>))))

\* Lines 89-108: response.json() settles.  A SyntaxError is thrown by the
\* await; the value null makes geoData.status a TypeError; an object is
\* mapped when its status is 'success' and otherwise throws its message, or
\* the fallback text when the message is falsy.
GeoOnBody(body) ==
    CASE body.kind = "syntaxError" -> Throw(body.error)
      [] body.kind = "null" -> Throw(<<"Cannot read properties of null (reading 'status')">>)
      [] OTHER ->
           IF Truthy(body.fields["status"]) /\ body.fields["status"] = Str(<<"success">>)
           THEN Return(GeoRecordOf(body.fields))
           ELSE Throw(ToText(OrElse(body.fields["message"],
                                    Str(<<"Alternate API returned failure status.">>))))

\* A catch block that swallows the error and lets the resolver return.
GeoCatch_Swallow(completion) == Return(completion.value)

\* A catch block that drops the original message.
GeoCatch_NoMessage(completion) ==
    IF completion.kind = "throw"
    THEN Throw(<<"Failed to retrieve alternate geolocation data: ">>)
    ELSE completion

\* Lines 110-113: every error thrown inside the try block is rethrown with
\* the fixed prefix before its message.
GeoCatch(completion) ==
    IF completion.kind = "throw"
    THEN Throw(<<"Failed to retrieve alternate geolocation data: ">> \o completion.error)
    ELSE completion

\* fetchAlternateGeoData from the settling of its fetch to its next await.
fetchAlternateGeoData_onResponse(outcome) == GeoCatch(GeoOnResponse(outcome))

\* fetchAlternateGeoData from the settling of response.json() to its end.
fetchAlternateGeoData_onBody(body) == GeoCatch(GeoOnBody(body))

\* ----------------------------------------------------------- sendDataToLog

\* JSON.stringify of a flat object: a BigInt member is a TypeError, a member
\* whose value is undefined is left out, the others are written.
JSONstringify(data) ==
    IF \E k \in DOMAIN data : data[k].t = "bigint"
    THEN Throw(<<"Do not know how to serialize a BigInt">>)
    ELSE Return([k \in {j \in DOMAIN data : data[j].t # "undefined"} |-> data[k]])

\* A transmitter that serializes outside its try block.
SendOnCall_Unguarded(data) ==
    LET body == JSONstringify(data)
    IN  IF body.kind = "throw"
        THEN [request |-> FALSE, body |-> <<>>, completion |-> body]
        ELSE [request |-> TRUE, body |-> body.value, completion |-> NotSettled]

\* Lines 121-129: the argument of fetch is evaluated inside the try block,
\* so an error of JSON.stringify is caught (line 138) and false is returned
\* with no request made; otherwise the POST is issued.
SendOnCall(data) ==
    LET body == JSONstringify(data)
    IN  IF body.kind = "throw"
        THEN [request |-> FALSE, body |-> <<>>, completion |-> Return(FALSE)]
        ELSE [request |-> TRUE, body |-> body.value, completion |-> NotSettled]

\* Lines 131-141: the POST settles; a rejection is caught and gives false,
\* a response gives response.ok.
SendOnResponse(outcome) ==
    IF outcome.rejected THEN Return(FALSE) ELSE Return(ResponseOk(outcome.status))

\* ------------------------------------------------ runAlternateDataTransfer

\* { ...clientData, ...geoData }: the members of both, the later object's
\* value where both have the key.
Spread(a, b) ==
    [k \in DOMAIN a \cup DOMAIN b |-> IF k \in DOMAIN b THEN b[k] ELSE a[k]]

\* What the promise of runAlternateDataTransfer resolves to.
ResultNull == [kind |-> "null", value |-> <<>>]
ResultPayload(payload) == [kind |-> "payload", value |-> payload]
ResultPending == [kind |-> "pending", value |-> <<>>]

\* An orchestrator that reports a failed transfer as an aborted run.
RunReturn_NullOnFailure(ok, payload) ==
    IF ok THEN ResultPayload(payload) ELSE ResultNull

\* Lines 164-169: both branches only log; fullPayload is returned.
RunReturn(ok, payload) == ResultPayload(payload)

\* A variable declared outside the function: one slot for all invocations.
Bind_Global(locals, i, v) == [j \in DOMAIN locals |-> v]

\* const <local> = ...: a binding of invocation i's own scope.
Bind(locals, i, v) == [locals EXCEPT ![i] = v]

\* A request made with fetch(), as the network sees it.
NewCall(method, url, body) ==
    [method |-> method, url |-> url, body |-> body, state |-> "pending",
     response |-> NoOutcome, json |-> NoBody]

\* Lines 171-175: an error thrown anywhere in the try block is logged with
\* its message and the run resolves to null.
Abort(i, message) ==
    /\ thrown' = [thrown EXCEPT ![i] = message]
    /\ result' = [result EXCEPT ![i] = ResultNull]
    /\ pc' = [pc EXCEPT ![i] = "done"]

\* runAlternateDataTransfer(name) is called: lines 147-153 up to the await
\* of the fetch inside fetchAlternateGeoData (line 84).  Invocations are
\* numbered in the order of their calls, and new Date() reads a later
\* instant in each.
Start(i, name) ==
    /\ pc[i] = "idle"
    /\ \A j \in Invocations : j < i => pc[j] # "idle"
    /\ clock' = clock + 1
    /\ clientName' = [clientName EXCEPT ![i] = name]
    /\ LET c == collectClientData(name, env, clock + 1)
       IN  IF c.kind = "throw"
           THEN /\ Abort(i, c.error)
                /\ UNCHANGED <<clientData, calls>>
           ELSE /\ clientData' = Bind(clientData, i, c.value)
                /\ calls' = [calls EXCEPT
                               ![i] = Append(@, NewCall("GET", ALTERNATE_IP_API_URL, <<>>))]
                /\ pc' = [pc EXCEPT ![i] = "awaitGeoFetch"]
                /\ UNCHANGED <<thrown, result>>
    /\ UNCHANGED <<env, geoData, fullPayload, sendOutcome, profileOut, osOut>>

\* The geolocation fetch settles: lines 84-89, up to the await of
\* response.json(), or the rethrow of line 112 and the catch of line 171.
GeoFetchSettles(i, outcome) ==
    /\ pc[i] = "awaitGeoFetch"
    /\ calls' = [calls EXCEPT ![i][1] = [@ EXCEPT !.state = "settled", !.response = outcome]]
    /\ LET r == fetchAlternateGeoData_onResponse(outcome)
       IN  IF r.kind = "throw"
           THEN Abort(i, r.error)
           ELSE /\ pc' = [pc EXCEPT ![i] = "awaitGeoJson"]
                /\ UNCHANGED <<thrown, result>>
    /\ UNCHANGED <<env, clock, clientName, clientData, geoData, fullPayload,
                   sendOutcome, profileOut, osOut>>

\* response.json() settles: lines 89-108, then lines 153-162 with the
\* synchronous part of sendDataToLog (lines 121-129), up to the await of
\* line 162; or the rethrow of line 112 and the catch of line 171.
GeoJsonSettles(i, body) ==
    /\ pc[i] = "awaitGeoJson"
    /\ LET r == fetchAlternateGeoData_onBody(body)
           read == [calls[i][1] EXCEPT !.json = body]
       IN  IF r.kind = "throw"
           THEN /\ Abort(i, r.error)
                /\ calls' = [calls EXCEPT ![i] = <<read>>]
                /\ UNCHANGED <<geoData, fullPayload, sendOutcome>>
           ELSE LET payload == Spread(clientData[i], r.value)
                    send == SendOnCall(payload)
                IN  /\ geoData' = Bind(geoData, i, r.value)
                    /\ fullPayload' = Bind(fullPayload, i, payload)
                    /\ sendOutcome' = [sendOutcome EXCEPT ![i] = send.completion]
                    /\ calls' = [calls EXCEPT ![i] =
                                   IF send.request
                                   THEN <<read, NewCall("POST", LOGGING_ENDPOINT, send.body)>>
                                   ELSE <<read>>]
                    /\ pc' = [pc EXCEPT ![i] = "awaitLog"]
                    /\ UNCHANGED <<thrown, result>>
    /\ UNCHANGED <<env, clock, clientName, clientData, profileOut, osOut>>

\* The POST settles: lines 131-141 of sendDataToLog, then lines 162-169.
LogFetchSettles(i, outcome) ==
    /\ pc[i] = "awaitLog"
    /\ sendOutcome[i].kind = "pending"
    /\ calls' = [calls EXCEPT ![i][2] = [@ EXCEPT !.state = "settled", !.response = outcome]]
    /\ LET c == SendOnResponse(outcome)
       IN  /\ sendOutcome' = [sendOutcome EXCEPT ![i] = c]
           /\ result' = [result EXCEPT ![i] = RunReturn(c.value, fullPayload[i])]
    /\ pc' = [pc EXCEPT ![i] = "done"]
    /\ UNCHANGED <<env, clock, clientName, clientData, geoData, fullPayload,
                   thrown, profileOut, osOut>>

\* sendDataToLog completed without a request (line 140, or an error it let
\* out): the await of line 162 resumes, lines 162-169 or the catch of 171.
SendSettledEarly(i) ==
    /\ pc[i] = "awaitLog"
    /\ sendOutcome[i].kind # "pending"
    /\ IF sendOutcome[i].kind = "throw"
       THEN Abort(i, sendOutcome[i].error)
       ELSE /\ result' = [result EXCEPT
                            ![i] = RunReturn(sendOutcome[i].value, fullPayload[i])]
            /\ pc' = [pc EXCEPT ![i] = "done"]
            /\ UNCHANGED thrown
    /\ UNCHANGED <<env, clock, clientName, clientData, geoData, fullPayload,
                   calls, sendOutcome, profileOut, osOut>>

\* ------------------------------------------------------------- the inputs

Chars_enUS == <<"e", "n", "-", "U", "S">>

\* The display names passed to runAlternateDataTransfer: none, a string, and
\* a value JSON.stringify rejects.
Names == { Undefined, Str(<<"Alice">>), BigInt(10) }

GoodConnection == Connection(Str(<<"4", "g">>), Num(1025))

BaseEnv ==
    [userAgent |-> Tok_Linux \o Tok_Android,
     connection |-> GoodConnection, mozConnection |-> NoConnection,
     webkitConnection |-> NoConnection, language |-> Str(Chars_enUS),
     screenWidth |-> 1920, screenHeight |-> 1080]

UAFragments ==
    { Tok_Win, Tok_Android, Tok_Mac, Tok_Linux, Tok_CrOS, Tok_iPhone, Tok_iPad,
      <<"X", "1", "1">>,
      Tok_Chrome \o <<"/", "1", "2", "0">>,
      Tok_Edg \o <<"/", "1", "1", "9">>,
      Tok_Firefox \o <<"/", "1", "1", "5">> }

RECURSIVE UserAgents(_)
\* The agent strings made of at most n fragments.
UserAgents(n) ==
    IF n = 0 THEN { <<>> }
    ELSE LET shorter == UserAgents(n - 1)
         IN  shorter \cup { u \o f : u \in shorter, f \in UAFragments }

ConnectionSignals ==
    { NoConnection, GoodConnection,
      Connection(Undefined, Undefined),
      Connection(Str(<<"3", "g">>), Num(0)),
      Connection(Str(<<"4", "g">>), Str(<<"1", "0">>)),
      Connection(Num(400), Num(150)) }

LanguageSignals ==
    { Undefined, Null, Str(<<>>), Str(Chars_enUS), Str(<<"e", "n", "_", "U", "S">>) }

\* The environments the profiler is run in: every agent string with the
\* other signals well-formed, and every combination of the other signals.
ProfileEnvs ==
    { [BaseEnv EXCEPT !.userAgent = u] : u \in UserAgents(MaxUAFragments) }
    \cup
    { [BaseEnv EXCEPT !.connection = c, !.mozConnection = m, !.language = l] :
        c \in ConnectionSignals,
        m \in { NoConnection, Connection(Str(<<"3", "g">>), Num(150)) },
        l \in LanguageSignals }

\* The environments the orchestrator is run in: a well-formed one and one
\* whose connection reports its downlink as a string.
RunEnvs ==
    { BaseEnv,
      [BaseEnv EXCEPT !.connection = Connection(Str(<<"4", "g">>), Str(<<"1", "0">>))] }

GetOutcomes == { Rejected(<<"Failed to fetch">>), Response(200), Response(404), Response(500) }

PostOutcomes == { Rejected(<<"Failed to fetch">>), Response(200), Response(500) }

SuccessFields ==
    [k \in BodyKeys |->
      CASE k = "status" -> Str(<<"success">>)
        [] k = "message" -> Undefined
        [] k = "query" -> Str(<<"1.2.3.4">>)
        [] k = "isp" -> Str(<<"ACME">>)
        [] k = "as" -> Str(<<"AS1 ACME">>)
        [] k = "countryCode" -> Str(<<"US">>)
        [] k = "regionName" -> Str(<<"CA">>)
        [] k = "city" -> Str(<<"X">>)
        [] k = "zip" -> Str(<<"90000">>)
        [] k = "lat" -> Num(100)
        [] k = "lon" -> Num(3775)
        [] OTHER -> Str(<<"UTC">>) ]

EmptyFields == [k \in BodyKeys |-> Undefined]

JsonBodies ==
    { JsonSyntaxError(<<"Unexpected token < in JSON at position 0">>), JsonNull,
      JsonObject(SuccessFields),
      JsonObject([EmptyFields EXCEPT !["status"] = Str(<<"success">>),
                                     !["city"] = Str(<<"X">>)]),
      JsonObject([EmptyFields EXCEPT !["status"] = Str(<<"fail">>),
                                     !["message"] = Str(<<"invalid query">>)]),
      JsonObject([EmptyFields EXCEPT !["status"] = Str(<<"fail">>)]),
      JsonObject([SuccessFields EXCEPT !["status"] = Num(100)]),
      JsonObject(EmptyFields) }

\* ------------------------------------------------------ the specifications

Init ==
    /\ env \in RunEnvs
    /\ clock = 0
    /\ pc = [i \in Invocations |-> "idle"]
    /\ clientName = [i \in Invocations |-> Undefined]
    /\ clientData = [i \in Invocations |-> <<>>]
    /\ geoData = [i \in Invocations |-> <<>>]
    /\ fullPayload = [i \in Invocations |-> <<>>]
    /\ result = [i \in Invocations |-> ResultPending]
    /\ thrown = [i \in Invocations |-> <<>>]
    /\ calls = [i \in Invocations |-> <<>>]
    /\ sendOutcome = [i \in Invocations |-> NotSettled]
    /\ profileOut = NotSettled
    /\ osOut = NotSettled

Next ==
    \E i \in Invocations :
        \/ \E name \in Names : Start(i, name)
        \/ \E outcome \in GetOutcomes : GeoFetchSettles(i, outcome)
        \/ \E body \in JsonBodies : GeoJsonSettles(i, body)
        \/ \E outcome \in PostOutcomes : LogFetchSettles(i, outcome)
        \/ SendSettledEarly(i)

Spec == Init /\ [][Next]_vars

\* The profiler alone: collectClientData and getOperatingSystem applied in
\* each environment of ProfileEnvs.
CallCollect(name) ==
    /\ profileOut.kind = "pending"
    /\ profileOut' = collectClientData(name, env, clock + 1)
    /\ UNCHANGED <<env, clock, pc, clientName, clientData, geoData, fullPayload,
                   result, thrown, calls, sendOutcome, osOut>>

CallGetOperatingSystem ==
    /\ osOut.kind = "pending"
    /\ osOut' = Return(getOperatingSystem(env.userAgent))
    /\ UNCHANGED <<env, clock, pc, clientName, clientData, geoData, fullPayload,
                   result, thrown, calls, sendOutcome, profileOut>>

InitProfile ==
    /\ env \in ProfileEnvs
    /\ clock = 0
    /\ pc = [i \in Invocations |-> "idle"]
    /\ clientName = [i \in Invocations |-> Undefined]
    /\ clientData = [i \in Invocations |-> <<>>]
    /\ geoData = [i \in Invocations |-> <<>>]
    /\ fullPayload = [i \in Invocations |-> <<>>]
    /\ result = [i \in Invocations |-> ResultPending]
    /\ thrown = [i \in Invocations |-> <<>>]
    /\ calls = [i \in Invocations |-> <<>>]
    /\ sendOutcome = [i \in Invocations |-> NotSettled]
    /\ profileOut = NotSettled
    /\ osOut = NotSettled

NextProfile ==
    \/ \E name \in Names : CallCollect(name)
    \/ CallGetOperatingSystem

SpecProfile == InitProfile /\ [][NextProfile]_vars

\* ------------------------------------------------------------- the claims

\* What the network saw of invocation i's geolocation request.
GeoCall(i) == calls[i][1]

\* The geolocation request of invocation i has failed: a rejected fetch, a
\* non-OK status, or a body that did not parse or is no success object.
GeoFailed(i) ==
    /\ calls[i] # <<>>
    /\ GeoCall(i).state = "settled"
    /\ \/ GeoCall(i).response.rejected
       \/ GeoCall(i).response.status \notin 200..299
       \/ GeoCall(i).json.kind \in {"syntaxError", "null"}
       \/ /\ GeoCall(i).json.kind = "object"
          /\ GeoCall(i).json.fields["status"] # Str(<<"success">>)

\* The geolocation request of invocation i has succeeded: an OK response
\* whose body is an object with status 'success'.
GeoSucceeded(i) ==
    /\ calls[i] # <<>>
    /\ GeoCall(i).state = "settled"
    /\ ~GeoCall(i).response.rejected
    /\ GeoCall(i).response.status \in 200..299
    /\ GeoCall(i).json.kind = "object"
    /\ GeoCall(i).json.fields["status"] = Str(<<"success">>)

Posts(i) == { k \in 1..Len(calls[i]) : calls[i][k].method = "POST" }

Gets(i) == { k \in 1..Len(calls[i]) : calls[i][k].method = "GET" }

\* C1: whenever the geolocation request of a run fails (non-OK status, a body
\* that is no success, a fetch or JSON-parse exception) the run has ended
\* with null and has issued no POST to the logging endpoint.
C1_ResolverFailureAborts ==
    \A i \in Invocations :
        GeoFailed(i) =>
            /\ pc[i] = "done"
            /\ result[i].kind = "null"
            /\ Posts(i) = {}
            /\ sendOutcome[i].kind = "pending"

C1_Witness ==
    \E i \in Invocations :
        /\ GeoFailed(i)
        /\ GeoCall(i).json.kind = "object"
        /\ GeoCall(i).json.fields["status"] = Str(<<"fail">>)
        /\ result[i].kind = "null"

\* The POST of invocation i was answered with an OK status.
PostAnsweredOk(i) ==
    /\ Posts(i) # {}
    /\ \A k \in Posts(i) :
          /\ calls[i][k].state = "settled"
          /\ ~calls[i][k].response.rejected
          /\ calls[i][k].response.status \in 200..299

\* C2: sendDataToLog never raises; once it has completed, it has returned
\* true exactly when its POST was answered with an OK status, and so false
\* for a non-OK answer, a rejected fetch, and a record that cannot be
\* serialized.
C2_SendNeverRaises ==
    \A i \in Invocations :
        /\ sendOutcome[i].kind # "throw"
        /\ sendOutcome[i].kind = "return" =>
              sendOutcome[i].value = PostAnsweredOk(i)
        /\ (pc[i] = "done" /\ GeoSucceeded(i)) => sendOutcome[i].kind = "return"

C2_Witness ==
    \E i, j \in Invocations :
        /\ sendOutcome[i].kind = "return"
        /\ sendOutcome[i].value = FALSE
        /\ fullPayload[i]["name"].t = "bigint"
        /\ Posts(i) = {}
        /\ sendOutcome[j].kind = "return"
        /\ sendOutcome[j].value = FALSE
        /\ Posts(j) # {}
        /\ calls[j][2].response.status = 500

\* C3: when the profiler and the resolver both succeeded, a finished run has
\* thrown nothing and has returned the merged payload, the record handed to
\* sendDataToLog, whatever sendDataToLog reported.
C3_PayloadReturnedDespiteSendFailure ==
    \A i \in Invocations :
        (pc[i] = "done" /\ GeoSucceeded(i)) =>
            /\ result[i].kind = "payload"
            /\ thrown[i] = <<>>
            /\ result[i].value = fullPayload[i]
            /\ DOMAIN result[i].value = DOMAIN clientData[i] \cup DOMAIN geoData[i]
            /\ \A k \in DOMAIN geoData[i] : result[i].value[k] = geoData[i][k]
            /\ \A k \in DOMAIN clientData[i] \ DOMAIN geoData[i] :
                  result[i].value[k] = clientData[i][k]
            /\ \A p \in Posts(i) :
                  \A k \in DOMAIN calls[i][p].body :
                      calls[i][p].body[k] = result[i].value[k]

C3_Witness ==
    \E i \in Invocations :
        /\ pc[i] = "done"
        /\ GeoSucceeded(i)
        /\ sendOutcome[i].kind = "return"
        /\ sendOutcome[i].value = FALSE
        /\ result[i].kind = "payload"

\* C4: every run that has started has issued exactly one GET to the
\* geolocation endpoint and at most one POST to the logging endpoint, the
\* POST only after the geolocation request succeeded, and never has two
\* requests in flight.
C4_SingleOrderedAttempts ==
    \A i \in Invocations :
        pc[i] # "idle" =>
            /\ Cardinality(Gets(i)) = 1
            /\ Cardinality(Posts(i)) <= 1
            /\ \A k \in Gets(i) : calls[i][k].url = ALTERNATE_IP_API_URL
            /\ \A k \in Posts(i) : calls[i][k].url = LOGGING_ENDPOINT
            /\ Posts(i) # {} => GeoSucceeded(i)
            /\ Cardinality({ k \in 1..Len(calls[i]) : calls[i][k].state = "pending" }) <= 1

\* C5: every payload posted to the logging endpoint holds all ten
\* ClientProfile fields and all ten GeoRecord fields, none of them missing
\* or undefined.
C5_PostedPayloadComplete ==
    \A i \in Invocations :
        \A p \in Posts(i) :
            /\ DOMAIN calls[i][p].body = ProfileKeys \cup GeoKeys
            /\ \A k \in DOMAIN calls[i][p].body : calls[i][p].body[k].t # "undefined"

\* C6: collectClientData never throws: in every environment it returns a
\* profile with all ten fields.
C6_ProfilerNeverFails ==
    profileOut.kind # "pending" =>
        /\ profileOut.kind = "return"
        /\ DOMAIN profileOut.value = ProfileKeys

GeoMapping ==
    { <<"ip", "query">>, <<"org", "isp">>, <<"asn", "as">>,
      <<"countryCode", "countryCode">>, <<"region", "regionName">>,
      <<"city", "city">>, <<"zip", "zip">>, <<"timezone", "timezone">> }

\* C7: the resolver has returned a record exactly when the response was OK
\* and the body's status is 'success', and then the record is the fixed
\* mapping of the body (coords is lat and lon joined by a comma, apiSource
\* is 'ip-api.com'); in every other case it has thrown and returned nothing.
C7_GeoRecordExactlyOnSuccess ==
    \A i \in Invocations :
        /\ GeoSucceeded(i) =>
              /\ DOMAIN geoData[i] = GeoKeys
              /\ \A m \in GeoMapping : geoData[i][m[1]] = GeoCall(i).json.fields[m[2]]
              /\ geoData[i]["coords"] =
                    Str(ToText(GeoCall(i).json.fields["lat"]) \o <<",">>
                        \o ToText(GeoCall(i).json.fields["lon"]))
              /\ geoData[i]["apiSource"] = Str(<<"ip-api.com">>)
              /\ thrown[i] = <<>>
        /\ GeoFailed(i) => (geoData[i] = <<>> /\ thrown[i] # <<>>)
        /\ geoData[i] # <<>> => GeoSucceeded(i)

C7_Witness ==
    \E i \in Invocations :
        /\ GeoSucceeded(i)
        /\ geoData[i] # <<>>
        /\ geoData[i]["coords"] = Str(<<"1", ",", "3", "7", ".", "7", "5">>)
        /\ geoData[i]["ip"] = Str(<<"1.2.3.4">>)

GeoErrorPrefix == <<"Failed to retrieve alternate geolocation data: ">>

\* C8: a non-OK status surfaces a message that includes the status code; a
\* body that is no success surfaces the prefix followed by the service's
\* message, or by the fallback text when the body has none; a fetch or
\* JSON-parse exception surfaces the prefix followed by its message.
C8_ResolverErrorMessages ==
    \A i \in Invocations :
        GeoFailed(i) =>
            LET r == GeoCall(i).response
                b == GeoCall(i).json
            IN  /\ SubSeq(thrown[i], 1, 1) = GeoErrorPrefix
                /\ r.rejected => thrown[i] = GeoErrorPrefix \o r.error
                /\ (~r.rejected /\ r.status \notin 200..299) =>
                      Includes(thrown[i], DigitsOf(r.status))
                /\ b.kind = "syntaxError" => thrown[i] = GeoErrorPrefix \o b.error
                /\ (b.kind = "object" /\ Truthy(b.fields["message"])) =>
                      thrown[i] = GeoErrorPrefix \o ToText(b.fields["message"])
                /\ (b.kind = "object" /\ ~Truthy(b.fields["message"])) =>
                      thrown[i] = GeoErrorPrefix \o <<"Alternate API returned failure status.">>

C8_Witness ==
    \E i, j \in Invocations :
        /\ GeoFailed(i)
        /\ GeoCall(i).response.status = 404
        /\ Includes(thrown[i], <<"4", "0", "4">>)
        /\ GeoFailed(j)
        /\ GeoCall(j).json.kind = "object"
        /\ thrown[j] = GeoErrorPrefix \o <<"invalid query">>

\* What invocation i computes from its own argument, its own call instant
\* and the answers to its own requests.
OwnProfile(i) == collectClientData(clientName[i], env, i).value

OwnPayload(i) == Spread(OwnProfile(i), GeoRecordOf(GeoCall(i).json.fields))

\* C9: with several invocations in progress at once, what each holds, posts
\* and returns is built from its own clientName, its own profile and the
\* answer to its own geolocation request only.
C9_InvocationsIndependent ==
    \A i \in Invocations :
        /\ clientData[i] # <<>> => clientData[i] = OwnProfile(i)
        /\ geoData[i] # <<>> => geoData[i] = GeoRecordOf(GeoCall(i).json.fields)
        /\ fullPayload[i] # <<>> => fullPayload[i] = OwnPayload(i)
        /\ \A p \in Posts(i) :
              \A k \in DOMAIN calls[i][p].body : calls[i][p].body[k] = OwnPayload(i)[k]
        /\ pc[i] = "done" =>
              IF GeoSucceeded(i)
              THEN result[i] = ResultPayload(OwnPayload(i))
              ELSE result[i] = ResultNull

C9_Witness ==
    \E i, j \in Invocations :
        /\ pc[i] = "awaitLog" /\ pc[j] = "awaitLog"
        /\ Posts(i) # {} /\ Posts(j) # {}
        /\ clientName[i] # clientName[j]
        /\ geoData[i] # geoData[j]
        /\ fullPayload[i]["name"] = Str(<<"Anonymous">>)
        /\ fullPayload[j]["name"] = Str(<<"Alice">>)

\* C10: getOperatingSystem returns the label of the first token found in the
\* order Win, Android, Mac, Linux, CrOS, iPhone or iPad, and Unknown/Other
\* when none is found; with Android present and Win absent it is Android
\* whatever else is present.
C10_OSPriorityOrder ==
    osOut.kind = "return" =>
        LET ua == env.userAgent
            has(t) == Includes(ua, t)
        IN  /\ has(Tok_Win) => osOut.value = <<"Windows">>
            /\ (has(Tok_Android) /\ ~has(Tok_Win)) => osOut.value = <<"Android">>
            /\ (has(Tok_Mac) /\ ~has(Tok_Win) /\ ~has(Tok_Android)) =>
                  osOut.value = <<"macOS (Apple)">>
            /\ (has(Tok_Linux) /\ ~has(Tok_Win) /\ ~has(Tok_Android) /\ ~has(Tok_Mac)) =>
                  osOut.value = <<"Linux">>
            /\ (has(Tok_CrOS) /\ ~has(Tok_Win) /\ ~has(Tok_Android) /\ ~has(Tok_Mac)
                  /\ ~has(Tok_Linux)) => osOut.value = <<"Chrome OS">>
            /\ ((has(Tok_iPhone) \/ has(Tok_iPad)) /\ ~has(Tok_Win) /\ ~has(Tok_Android)
                  /\ ~has(Tok_Mac) /\ ~has(Tok_Linux) /\ ~has(Tok_CrOS)) =>
                  osOut.value = <<"iOS (Apple)">>
            /\ (\A t \in {Tok_Win, Tok_Android, Tok_Mac, Tok_Linux, Tok_CrOS,
                          Tok_iPhone, Tok_iPad} : ~has(t)) =>
                  osOut.value = <<"Unknown/Other">>

C10_Witness ==
    /\ osOut.kind = "return"
    /\ osOut.value = <<"Android">>
    /\ Includes(env.userAgent, Tok_Linux)
    /\ Includes(env.userAgent, Tok_Mac)
    /\ env.userAgent[1] # "A"

====
